---- MODULE Spec2Model ----
(***************************************************************************)
(* Team-collaboration backend: the relational store (workspaces, members,  *)
(* group tasks, personal todos, chat messages, chat notifications), the    *)
(* REST handlers that write it, and the Socket.IO notification layer.      *)
(*                                                                         *)
(* A handler that awaits the store more than once is split at the awaits   *)
(* its claims depend on; every other handler is one atomic action.         *)
(* Absent values (undefined / null / a missing row) are the string "null". *)
(***************************************************************************)
EXTENDS Naturals, FiniteSets, Sequences, TLC

VARIABLES
    sock,        \* socket id -> [st, token, user, err]: the connection and socket.user
    rooms,       \* socket id -> set of room names the socket is in
    pend,        \* socket id -> task_update payload awaiting its task look-up, or NoPend
    out,         \* the socket events emitted by the most recent step
    workspaces,  \* workspace id -> ownerId, or "null" when there is no such row
    members,     \* workspace id -> user id -> "none" | "pending" | "accepted"
    tasks,       \* task id -> group task row (NoTask when the id was never used)
    todos,       \* todo id -> personal todo row (NoTodo when the id was never used)
    msgs,        \* message id -> chat message row (NoMsg when the id was never used)
    notif,       \* workspace id -> user id -> chat notification row, or NoNotif
    friends,     \* the friend rows: a set of [userId, friendId, status]
    now,         \* the clock: it ticks once per chat message created
    req,         \* request slot -> the request being served in that slot
    res,         \* the REST response of the most recent step: [status, count]
    rtokens,     \* the refresh token rows: a set of [token, userId, expired]
    active,      \* user id -> the user's isActive column
    jwts,        \* token id -> the refresh JWT of that id, or NoJwt
    proc         \* the server process: [pc, api, socket, db, code]

vars == <<sock, rooms, pend, out, workspaces, members, tasks, todos, msgs, notif,
          friends, now, req, res, rtokens, active, jwts, proc>>

storeVars == <<workspaces, members, tasks, todos, msgs, notif, friends, now>>

authVars == <<rtokens, active, jwts>>

----------------------------------------------------------------------------
(* Bounds and domains *)

Null == "null"

Users == {"u1", "u2", "u3"}
WsIds == {"w1", "w2"}
Sockets == {"s1", "s2"}
TaskIds == {"t1", "t2"}
TodoIds == {"d1", "d2"}
Slots == {"r1", "r2"}

\* Number of chat messages ever created in one behaviour.
MaxMsgs == 2

MsgIds == 1..MaxMsgs

\* Number of refresh tokens ever generated in one behaviour.
MaxLogins == 3

TokenIds == 1..MaxLogins

\* the users whose role column is "admin"
Admins == {"u3"}

\* process.env.JWT_SECRET, and a key that is not it
JWT_SECRET == "JWT_SECRET"
OtherKey == "other_key"

validStatuses == {"pending", "in_progress", "completed"}

\* the action names a task_update payload carries (socket.js 129), or none
Actions == {Null, "created", "updated", "deleted"}

\* The dates a request body can carry: a date string is modelled by the day
\* it names, NoDate is a missing (falsy) field and BadDate a string that
\* new Date() turns into an Invalid Date.
Dates == {1, 2, 3}
NoDate == 0
BadDate == 9

\* the absent handshake.auth.token; a token is [sub, key, expired]
NoToken == [sub |-> Null, key |-> Null, expired |-> FALSE]

----------------------------------------------------------------------------
(* Rows *)

NoTask == [live |-> FALSE, workspaceId |-> Null, status |-> Null,
           startDate |-> 0, dueDate |-> 0, mut |-> "none", by |-> Null]
NoTodo == [live |-> FALSE, userId |-> Null, status |-> Null]
NoMsg == [live |-> FALSE, workspaceId |-> Null, userId |-> Null, createdAt |-> 0]
NoNotif == [exists |-> FALSE, unreadCount |-> 0, lastReadAt |-> 0]
NoTaskData == [id |-> Null, workspaceId |-> Null, status |-> Null]
NoPend == [wsId |-> Null, taskId |-> Null, action |-> Null, taskData |-> NoTaskData,
           after |-> FALSE]
NoJwt == [userId |-> Null, issued |-> FALSE, valid |-> FALSE, revoked |-> FALSE]
NoReq == [pc |-> "idle", user |-> Null, ws |-> Null, todo |-> <<>>, cur |-> Null,
          found |-> FALSE, seen |-> 0, token |-> 0,
          base |-> [m \in Users |-> 0]]

\* The columns of a group task row, as prisma returns them (ghost fields left out).
TaskRecord(t) == [id |-> t, workspaceId |-> tasks[t].workspaceId,
                  status |-> tasks[t].status]

----------------------------------------------------------------------------
(* Rooms and events *)

WsRoom(w) == <<"workspace", w>>
UserRoom(u) == <<"user", u>>
SocketRoom(s) == <<"socket", s>>

\* The sockets an emit to `room` reaches.
InRoom(room) == {s \in Sockets : room \in rooms[s]}

NoData == [wsId |-> Null, taskId |-> Null, action |-> Null, userId |-> Null,
           taskData |-> NoTaskData, message |-> Null]

\* socket.emit(ev, ...): to the socket itself
EmitSelf(s, ev, data) ==
    [ev |-> ev, room |-> SocketRoom(s), rcpt |-> {s}, from |-> s, data |-> data]

\* io.to(room).emit(ev, ...): to every socket in the room
EmitRoom(s, room, ev, data) ==
    [ev |-> ev, room |-> room, rcpt |-> InRoom(room), from |-> s, data |-> data]

\* socket.to(room).emit(ev, ...): to every socket in the room but the sender
EmitOthers(s, room, ev, data) ==
    [ev |-> ev, room |-> room, rcpt |-> InRoom(room) \ {s}, from |-> s, data |-> data]

ErrorEvent(s, message) == EmitSelf(s, "error", [NoData EXCEPT !.message = message])


\* No REST response: the most recent step was a socket handler's.
NoRes == [status |-> 0, count |-> 0]

\* res.status(...).json(...): the status code and, for the bulk updates, the
\* number of rows updated.
Response(op, user, status, count) == [status |-> status, count |-> count]

----------------------------------------------------------------------------
(* Membership *)

\* A faulty variant of checkWorkspaceMembership: the member look-up without accepted: true.
checkWorkspaceMembershipAnyRow(userId, wsId) ==
    IF workspaces[wsId] # Null /\ workspaces[wsId] = userId
    THEN TRUE
    ELSE members[wsId][userId] # "none"

\* checkWorkspaceMembership(userId, wsId) of socket.js: the owner look-up, then
\* the look-up of a member row with accepted = true.
checkWorkspaceMembership(userId, wsId) ==
    IF workspaces[wsId] # Null /\ workspaces[wsId] = userId
    THEN TRUE
    ELSE members[wsId][userId] = "accepted"

\* The checkWorkspaceMember middleware of the REST routes (middleware/auth.js):
\* lets the owner and the accepted members of :wsId through.
checkWorkspaceMember(userId, wsId) ==
    /\ workspaces[wsId] # Null
    /\ \/ workspaces[wsId] = userId
       \/ members[wsId][userId] = "accepted"

\* The checkWorkspaceOwner middleware of the REST routes (middleware/auth.js).
checkWorkspaceOwner(userId, wsId) ==
    workspaces[wsId] # Null /\ workspaces[wsId] = userId

----------------------------------------------------------------------------
(* Socket server: socket.js *)

\* A faulty variant of jwtVerify: the signature is not checked.
jwtVerifyNoSignature(token, secret) == ~token.expired

\* jwt.verify(token, secret): the signature is made with the secret and the
\* token has not expired.
jwtVerify(token, secret) == token.key = secret /\ ~token.expired

\* io.use middleware: a connection is accepted only with a token that verifies.
Connect(s, token) ==
    /\ sock[s].st = "idle"
    /\ sock' = [sock EXCEPT ![s] =
          IF token = NoToken
          THEN [st |-> "rejected", token |-> token, user |-> Null, err |-> "no_token"]
          ELSE IF ~jwtVerify(token, JWT_SECRET)
          THEN [st |-> "rejected", token |-> token, user |-> Null,
                err |-> "invalid_token"]
          ELSE [st |-> "connected", token |-> token, user |-> token.sub,
                err |-> Null]]
    /\ out' = {}
    /\ res' = NoRes
    /\ UNCHANGED <<rooms, pend, storeVars, req, authVars, proc>>

\* The handlers are registered in io.on("connection"), so an event is handled
\* only on a socket the middleware let through.
Accepted(s) == sock[s].st = "connected"

\* socket.on("join_workspace")
JoinWorkspace(s, wsId) ==
    /\ Accepted(s)
    /\ IF wsId = Null
       THEN /\ out' = {}
            /\ UNCHANGED rooms
       ELSE IF ~checkWorkspaceMembership(sock[s].user, wsId)
       THEN /\ out' = {ErrorEvent(s, "no_access")}
            /\ UNCHANGED rooms
       ELSE /\ rooms' = [rooms EXCEPT ![s] = @ \cup {WsRoom(wsId)}]
            /\ out' = {EmitSelf(s, "joined_workspace", [NoData EXCEPT !.wsId = wsId]),
                       EmitOthers(s, WsRoom(wsId), "user_joined",
                                  [NoData EXCEPT !.userId = sock[s].user])}
    /\ res' = NoRes
    /\ UNCHANGED <<sock, pend, storeVars, req, authVars, proc>>

\* socket.on("leave_workspace")
LeaveWorkspace(s, wsId) ==
    /\ Accepted(s)
    /\ IF wsId = Null
       THEN /\ out' = {}
            /\ UNCHANGED rooms
       ELSE /\ rooms' = [rooms EXCEPT ![s] = @ \ {WsRoom(wsId)}]
            /\ out' = {EmitSelf(s, "left_workspace", [NoData EXCEPT !.wsId = wsId]),
                       EmitOthers(s, WsRoom(wsId), "user_left",
                                  [NoData EXCEPT !.userId = sock[s].user])}
    /\ res' = NoRes
    /\ UNCHANGED <<sock, pend, storeVars, req, authVars, proc>>

\* socket.on("task_update"), up to the await of the membership check: the
\* payload is validated and the emitter's membership re-validated.  The
\* pending payload also remembers (field after, history only) whether the
\* event arrived after a REST mutation of the kind it names.
TaskUpdateCheck(s, data) ==
    /\ Accepted(s)
    /\ pend[s] = NoPend
    /\ IF data.wsId = Null \/ data.taskId = Null
       THEN /\ out' = {ErrorEvent(s, "ids_required")}
            /\ UNCHANGED pend
       ELSE IF ~checkWorkspaceMembership(sock[s].user, data.wsId)
       THEN /\ out' = {ErrorEvent(s, "no_access")}
            /\ UNCHANGED pend
       ELSE /\ pend' = [pend EXCEPT ![s] =
                         [wsId |-> data.wsId, taskId |-> data.taskId,
                          action |-> data.action, taskData |-> data.taskData,
                          after |-> tasks[data.taskId].mut = data.action]]
            /\ out' = {}
    /\ res' = NoRes
    /\ UNCHANGED <<sock, rooms, storeVars, req, authVars, proc>>

\* A faulty variant of TaskUpdatedData: the client's taskData is relayed even when the
\* payload carries none.
TaskUpdatedDataClientOnly(userId, data, task) ==
    [NoData EXCEPT !.taskId = data.taskId,
                   !.action = IF data.action = Null THEN "updated" ELSE data.action,
                   !.userId = userId,
                   !.taskData = data.taskData]

\* The payload of the task_updated broadcast (socket.js 127-133).
TaskUpdatedData(userId, data, task) ==
    [NoData EXCEPT !.taskId = data.taskId,
                   !.action = IF data.action = Null THEN "updated" ELSE data.action,
                   !.userId = userId,
                   !.taskData = IF data.taskData # NoTaskData THEN data.taskData
                                ELSE task]

\* A faulty variant of TaskFound: the look-up by id alone, in any workspace.
TaskFoundAnyWorkspace(taskId, wsId) == tasks[taskId].live

\* prisma.groupTask.findFirst({where: {id, workspaceId}}) found a row
TaskFound(taskId, wsId) ==
    tasks[taskId].live /\ tasks[taskId].workspaceId = wsId

\* socket.on("task_update"), from the task look-up on: the broadcast to the
\* workspace room, or an error to the emitter when the task is not found.
TaskUpdateEmit(s) ==
    /\ pend[s] # NoPend
    /\ LET data == pend[s] IN
       IF ~TaskFound(data.taskId, data.wsId)
       THEN out' = {ErrorEvent(s, "task_not_found")}
       ELSE out' = {EmitRoom(s, WsRoom(data.wsId), "task_updated",
                             TaskUpdatedData(sock[s].user, data,
                                             TaskRecord(data.taskId)))}
    /\ pend' = [pend EXCEPT ![s] = NoPend]
    /\ res' = NoRes
    /\ UNCHANGED <<sock, rooms, storeVars, req, authVars, proc>>

\* socket.on("join_personal_channel")
\* A faulty variant of JoinPersonalChannel: the room of a user the client names.
JoinNamedPersonalChannel(s) ==
    /\ Accepted(s)
    /\ \E u \in Users :
          /\ rooms' = [rooms EXCEPT ![s] = @ \cup {UserRoom(u)}]
          /\ out' = {EmitSelf(s, "joined_personal_channel",
                              [NoData EXCEPT !.userId = u])}
    /\ res' = NoRes
    /\ UNCHANGED <<sock, pend, storeVars, req, authVars, proc>>

\* socket.on("join_personal_channel")
JoinPersonalChannel(s) ==
    /\ Accepted(s)
    /\ rooms' = [rooms EXCEPT ![s] = @ \cup {UserRoom(sock[s].user)}]
    /\ out' = {EmitSelf(s, "joined_personal_channel",
                        [NoData EXCEPT !.userId = sock[s].user])}
    /\ res' = NoRes
    /\ UNCHANGED <<sock, pend, storeVars, req, authVars, proc>>

\* socket.on("typing_start") and socket.on("typing_stop")
Typing(s, wsId, isTyping) ==
    /\ Accepted(s)
    /\ out' = IF wsId = Null THEN {}
              ELSE {EmitOthers(s, WsRoom(wsId), "user_typing",
                               [NoData EXCEPT !.userId = sock[s].user,
                                              !.action = IF isTyping THEN "start"
                                                         ELSE "stop"])}
    /\ res' = NoRes
    /\ UNCHANGED <<sock, rooms, pend, storeVars, req, authVars, proc>>

\* socket.on("disconnect"): by the time the handler runs the socket has left
\* its rooms, so Array.from(socket.rooms) is empty and nothing is emitted.
Disconnect(s) ==
    /\ Accepted(s)
    /\ sock' = [sock EXCEPT ![s].st = "closed"]
    /\ rooms' = [rooms EXCEPT ![s] = {}]
    /\ out' = {}
    /\ res' = NoRes
    /\ UNCHANGED <<pend, storeVars, req, authVars, proc>>


\* socket.on("todo_update"): the accepted friendships of the emitter, in
\* either direction, and one friend_todo_updated per friendship.
\* A faulty variant of AcceptedFriendsOf: the status is not looked at.
FriendsOfAnyStatus(userId) ==
    {f \in friends : f.userId = userId \/ f.friendId = userId}

AcceptedFriendsOf(userId) ==
    {f \in friends : f.status = "accepted" /\ (f.userId = userId \/ f.friendId = userId)}

TodoUpdate(s, todoId, action) ==
    /\ Accepted(s)
    /\ out' = IF todoId = Null
              THEN {ErrorEvent(s, "todo_id_required")}
              ELSE {EmitRoom(s,
                             UserRoom(IF f.userId = sock[s].user THEN f.friendId
                                      ELSE f.userId),
                             "friend_todo_updated",
                             [NoData EXCEPT !.taskId = todoId,
                                            !.action = IF action = Null THEN "updated"
                                                       ELSE action,
                                            !.userId = sock[s].user])
                    : f \in AcceptedFriendsOf(sock[s].user)}
    /\ res' = NoRes
    /\ UNCHANGED <<sock, rooms, pend, storeVars, req, authVars, proc>>

\* socket.on("friend_request")
FriendRequest(s, targetUserId, action) ==
    /\ Accepted(s)
    /\ out' = IF targetUserId = Null
              THEN {ErrorEvent(s, "target_required")}
              ELSE {EmitRoom(s, UserRoom(targetUserId), "friend_request_received",
                             [NoData EXCEPT !.userId = sock[s].user,
                                            !.action = IF action = Null THEN "sent"
                                                       ELSE action])}
    /\ res' = NoRes
    /\ UNCHANGED <<sock, rooms, pend, storeVars, req, authVars, proc>>

----------------------------------------------------------------------------
(* REST: workspaces and members (routes/workspaces.js) *)

NewNotif == [exists |-> TRUE, unreadCount |-> 0, lastReadAt |-> now]

\* POST /workspaces: the workspace row and the owner's chat notification row.
WorkspaceCreate(u, w, hasName) ==
    /\ workspaces[w] = Null
    /\ IF ~hasName
       THEN /\ res' = Response("ws_create", u, 400, 0)
            /\ UNCHANGED <<workspaces, notif>>
       ELSE /\ workspaces' = [workspaces EXCEPT ![w] = u]
            /\ notif' = [notif EXCEPT ![w][u] = NewNotif]
            /\ res' = Response("ws_create", u, 201, 0)
    /\ out' = {}
    /\ UNCHANGED <<sock, rooms, pend, members, tasks, todos, msgs, friends, now, req, authVars, proc>>

\* POST /workspaces/:wsId/members: the owner invites a user. The member row is
\* created first; creating a notification row that already exists violates
\* its unique key and the request ends 500 with the member row in place.
MemberInvite(u, w, target) ==
    /\ IF ~checkWorkspaceOwner(u, w)
       THEN /\ res' = Response("invite", u, 403, 0)
            /\ UNCHANGED <<members, notif>>
       ELSE IF target = Null \/ target = u \/ members[w][target] # "none"
       THEN /\ res' = Response("invite", u, 400, 0)
            /\ UNCHANGED <<members, notif>>
       ELSE /\ members' = [members EXCEPT ![w][target] = "pending"]
            /\ IF notif[w][target].exists
               THEN /\ res' = Response("invite", u, 500, 0)
                    /\ UNCHANGED notif
               ELSE /\ notif' = [notif EXCEPT ![w][target] = NewNotif]
                    /\ res' = Response("invite", u, 201, 0)
    /\ out' = {}
    /\ UNCHANGED <<sock, rooms, pend, workspaces, tasks, todos, msgs, friends, now, req, authVars, proc>>

\* PATCH /workspaces/:wsId/members/:user_id: the invitee accepts or declines.
MemberRespond(u, w, target, accepted) ==
    /\ IF target # u
       THEN /\ res' = Response("respond", u, 403, 0)
            /\ UNCHANGED members
       ELSE IF members[w][target] = "none"
       THEN /\ res' = Response("respond", u, 404, 0)
            /\ UNCHANGED members
       ELSE IF ~accepted
       THEN /\ members' = [members EXCEPT ![w][target] = "none"]
            /\ res' = Response("respond", u, 204, 0)
       ELSE /\ members' = [members EXCEPT ![w][target] = "accepted"]
            /\ res' = Response("respond", u, 200, 0)
    /\ out' = {}
    /\ UNCHANGED <<sock, rooms, pend, workspaces, tasks, todos, msgs, notif, friends, now, req, authVars, proc>>

\* DELETE /workspaces/:wsId/members/:user_id: by the owner, or by the member.
MemberRemove(u, w, target) ==
    /\ IF ~(workspaces[w] = u) /\ target # u
       THEN /\ res' = Response("remove", u, 403, 0)
            /\ UNCHANGED <<members, notif>>
       ELSE IF members[w][target] = "none"
       THEN /\ res' = Response("remove", u, 404, 0)
            /\ UNCHANGED <<members, notif>>
       ELSE /\ members' = [members EXCEPT ![w][target] = "none"]
            /\ notif' = [notif EXCEPT ![w][target] = NoNotif]
            /\ res' = Response("remove", u, 204, 0)
    /\ out' = {}
    /\ UNCHANGED <<sock, rooms, pend, workspaces, tasks, todos, msgs, friends, now, req, authVars, proc>>

\* prisma/seed.js, steps 3 and 4: workspace w owned by the admin, and an
\* accepted member row for the admin and for two more users; the upserts
\* leave a row that exists as it is.
SeedWorkspace(w) ==
    /\ workspaces' = [workspaces EXCEPT ![w] = IF @ = Null THEN "u3" ELSE @]
    /\ members' = [members EXCEPT ![w] =
                     [u \in Users |-> IF @[u] = "none" THEN "accepted" ELSE @[u]]]
    /\ res' = NoRes
    /\ out' = {}
    /\ UNCHANGED <<sock, rooms, pend, tasks, todos, msgs, notif, friends, now, req, authVars, proc>>

----------------------------------------------------------------------------
(* REST: group tasks (routes/tasks.js), mounted at /workspaces/:wsId/tasks *)

\* What a request body can carry for the columns the model keeps. `fields`
\* stands for title and department together: "ok" when both are present and
\* valid, else the validation that fails.

\* due <= start on two Date objects; with an Invalid Date it is false
DueNotAfterStart(due, start) == due # BadDate /\ start # BadDate /\ due <= start

\* POST /workspaces/:wsId/tasks
TaskCreate(u, w, t, body) ==
    /\ tasks[t] = NoTask
    /\ IF ~checkWorkspaceMember(u, w)
       THEN /\ res' = Response("task_create", u, 403, 0)
            /\ UNCHANGED tasks
       ELSE IF \/ body.fields # "ok"
               \/ body.startDate = NoDate \/ body.dueDate = NoDate
               \/ (body.status # Null /\ body.status \notin validStatuses)
               \/ DueNotAfterStart(body.dueDate, body.startDate)
       THEN /\ res' = Response("task_create", u, 400, 0)
            /\ UNCHANGED tasks
       ELSE IF body.startDate = BadDate \/ body.dueDate = BadDate
       THEN \* the store rejects an Invalid Date
            /\ res' = Response("task_create", u, 500, 0)
            /\ UNCHANGED tasks
       ELSE /\ tasks' = [tasks EXCEPT ![t] =
                  [live |-> TRUE, workspaceId |-> w,
                   status |-> IF body.status = Null THEN "pending" ELSE body.status,
                   startDate |-> body.startDate, dueDate |-> body.dueDate,
                   mut |-> "created", by |-> u]]
            /\ res' = Response("task_create", u, 201, 0)
    /\ out' = {}
    /\ UNCHANGED <<sock, rooms, pend, workspaces, members, todos, msgs, notif, friends, now, req, authVars, proc>>

\* PATCH /workspaces/:wsId/tasks/:taskId: the task is looked up by id and
\* workspace, then updated by id alone with the request body as the data.
TaskPatch(u, w, t, body) ==
    /\ IF ~checkWorkspaceMember(u, w)
       THEN /\ res' = Response("task_patch", u, 403, 0)
            /\ UNCHANGED tasks
       ELSE IF ~TaskFound(t, w)
       THEN /\ res' = Response("task_patch", u, 404, 0)
            /\ UNCHANGED tasks
       ELSE IF \/ body.fields = "bad_department"
               \/ (body.status # Null /\ body.status \notin validStatuses)
               \/ /\ body.startDate # NoDate /\ body.dueDate # NoDate
                  /\ DueNotAfterStart(body.dueDate, body.startDate)
       THEN /\ res' = Response("task_patch", u, 400, 0)
            /\ UNCHANGED tasks
       ELSE IF \/ body.workspaceId # Null /\ workspaces[body.workspaceId] = Null
               \/ body.startDate = BadDate \/ body.dueDate = BadDate
       THEN \* the foreign key to workspaces, or an Invalid Date, rejects the update
            /\ res' = Response("task_patch", u, 500, 0)
            /\ UNCHANGED tasks
       ELSE /\ tasks' = [tasks EXCEPT ![t] =
                  [@ EXCEPT !.workspaceId = IF body.workspaceId = Null THEN @
                                            ELSE body.workspaceId,
                            !.status = IF body.status = Null THEN @ ELSE body.status,
                            !.startDate = IF body.startDate = NoDate THEN @
                                          ELSE body.startDate,
                            !.dueDate = IF body.dueDate = NoDate THEN @
                                        ELSE body.dueDate,
                            !.mut = "updated", !.by = u]]
            /\ res' = Response("task_patch", u, 200, 0)
    /\ out' = {}
    /\ UNCHANGED <<sock, rooms, pend, workspaces, members, todos, msgs, notif, friends, now, req, authVars, proc>>

\* A faulty variant of TaskDelete: the route itself broadcasts the deletion to the room.
TaskDeleteBroadcasting(u, w, t) ==
    /\ IF ~checkWorkspaceMember(u, w)
       THEN /\ res' = Response("task_delete", u, 403, 0)
            /\ out' = {}
            /\ UNCHANGED tasks
       ELSE IF ~TaskFound(t, w)
       THEN /\ res' = Response("task_delete", u, 404, 0)
            /\ out' = {}
            /\ UNCHANGED tasks
       ELSE /\ tasks' = [tasks EXCEPT ![t] =
                  [@ EXCEPT !.live = FALSE, !.mut = "deleted", !.by = u]]
            /\ out' = {EmitRoom("api", WsRoom(w), "task_updated",
                                [NoData EXCEPT !.taskId = t, !.action = "deleted",
                                               !.userId = u])}
            /\ res' = Response("task_delete", u, 204, 0)
    /\ UNCHANGED <<sock, rooms, pend, workspaces, members, todos, msgs, notif, friends, now, req, authVars, proc>>

\* DELETE /workspaces/:wsId/tasks/:taskId
TaskDelete(u, w, t) ==
    /\ IF ~checkWorkspaceMember(u, w)
       THEN /\ res' = Response("task_delete", u, 403, 0)
            /\ UNCHANGED tasks
       ELSE IF ~TaskFound(t, w)
       THEN /\ res' = Response("task_delete", u, 404, 0)
            /\ UNCHANGED tasks
       ELSE /\ tasks' = [tasks EXCEPT ![t] =
                  [@ EXCEPT !.live = FALSE, !.mut = "deleted", !.by = u]]
            /\ res' = Response("task_delete", u, 204, 0)
    /\ out' = {}
    /\ UNCHANGED <<sock, rooms, pend, workspaces, members, todos, msgs, notif, friends, now, req, authVars, proc>>

\* PATCH /workspaces/:wsId/tasks/bulk/status: updateMany over the tasks of
\* the workspace whose id is listed.
TaskBulkStatus(u, w, taskIds, status) ==
    /\ IF ~checkWorkspaceMember(u, w)
       THEN /\ res' = Response("task_bulk", u, 403, 0)
            /\ UNCHANGED tasks
       ELSE IF taskIds = {} \/ status = Null \/ status \notin validStatuses
       THEN /\ res' = Response("task_bulk", u, 400, 0)
            /\ UNCHANGED tasks
       ELSE LET hit == {t \in taskIds : TaskFound(t, w)} IN
            /\ tasks' = [t \in TaskIds |->
                  IF t \in hit
                  THEN [tasks[t] EXCEPT !.status = status, !.mut = "updated", !.by = u]
                  ELSE tasks[t]]
            /\ res' = Response("task_bulk", u, 200, Cardinality(hit))
    /\ out' = {}
    /\ UNCHANGED <<sock, rooms, pend, workspaces, members, todos, msgs, notif, friends, now, req, authVars, proc>>

----------------------------------------------------------------------------
(* REST: personal todos (routes/todos.js), u is the authenticated user *)

\* `fields` of a todo body stands for title and priority: "ok", title
\* "missing", or "bad_priority".
TodoFields == {"ok", "missing", "bad_priority"}

\* prisma.personalTodo.findFirst({where: {id, userId}}) found a row
TodoFound(d, u) == todos[d].live /\ todos[d].userId = u

\* POST /me/todos: only the destructured fields of the body are stored.
TodoCreate(u, d, body) ==
    /\ todos[d] = NoTodo
    /\ IF \/ body.fields = "missing"
          \/ (body.status # Null /\ body.status \notin validStatuses)
          \/ body.fields = "bad_priority"
       THEN /\ res' = Response("todo_create", u, 400, 0)
            /\ UNCHANGED todos
       ELSE /\ todos' = [todos EXCEPT ![d] =
                  [live |-> TRUE, userId |-> u,
                   status |-> IF body.status = Null THEN "pending" ELSE body.status]]
            /\ res' = Response("todo_create", u, 201, 0)
    /\ out' = {}
    /\ UNCHANGED <<sock, rooms, pend, workspaces, members, tasks, msgs, notif, friends, now, req, authVars, proc>>

\* GET /me/todos/:id
TodoGet(u, d) ==
    /\ res' = Response("todo_get", u, IF TodoFound(d, u) THEN 200 ELSE 404, 0)
    /\ out' = {}
    /\ UNCHANGED <<sock, rooms, pend, storeVars, req, authVars, proc>>

\* PATCH /me/todos/:id: the row is looked up by id and owner, then the whole
\* request body is written to the row with that id.
TodoPatch(u, d, body) ==
    /\ IF ~TodoFound(d, u)
       THEN /\ res' = Response("todo_patch", u, 404, 0)
            /\ UNCHANGED todos
       ELSE IF \/ (body.status # Null /\ body.status \notin validStatuses)
               \/ body.fields = "bad_priority"
       THEN /\ res' = Response("todo_patch", u, 400, 0)
            /\ UNCHANGED todos
       ELSE /\ todos' = [todos EXCEPT ![d] =
                  [@ EXCEPT !.userId = IF body.userId = Null THEN @ ELSE body.userId,
                            !.status = IF body.status = Null THEN @ ELSE body.status]]
            /\ res' = Response("todo_patch", u, 200, 0)
    /\ out' = {}
    /\ UNCHANGED <<sock, rooms, pend, workspaces, members, tasks, msgs, notif, friends, now, req, authVars, proc>>

\* DELETE /me/todos/:id
TodoDelete(u, d) ==
    /\ IF ~TodoFound(d, u)
       THEN /\ res' = Response("todo_delete", u, 404, 0)
            /\ UNCHANGED todos
       ELSE /\ todos' = [todos EXCEPT ![d] = [@ EXCEPT !.live = FALSE]]
            /\ res' = Response("todo_delete", u, 204, 0)
    /\ out' = {}
    /\ UNCHANGED <<sock, rooms, pend, workspaces, members, tasks, msgs, notif, friends, now, req, authVars, proc>>

\* PATCH /me/todos/bulk/status: updateMany over the caller's listed todos.
TodoBulkStatus(u, todoIds, status) ==
    /\ IF todoIds = {} \/ status = Null \/ status \notin validStatuses
       THEN /\ res' = Response("todo_bulk", u, 400, 0)
            /\ UNCHANGED todos
       ELSE LET hit == {d \in todoIds : TodoFound(d, u)} IN
            /\ todos' = [d \in TodoIds |->
                  IF d \in hit THEN [todos[d] EXCEPT !.status = status] ELSE todos[d]]
            /\ res' = Response("todo_bulk", u, 200, Cardinality(hit))
    /\ out' = {}
    /\ UNCHANGED <<sock, rooms, pend, workspaces, members, tasks, msgs, notif, friends, now, req, authVars, proc>>

----------------------------------------------------------------------------
(* REST: workspace chat (routes/chat.js), u is the authenticated user.     *)
(* A post is served in a request slot: the message is created and the list *)
(* of recipients read in its first step, then every list entry's           *)
(* chatNotification.upsert runs as a look-up step and a write step, so     *)
(* that the steps of two posts interleave.  The other handlers are atomic. *)

\* lastReadAt of a notification row created without one (schema default)
DefaultLastReadAt == now

\* the messages of workspace w created after time t
MessagesAfter(m, w, t) ==
    {i \in MsgIds : m[i].live /\ m[i].workspaceId = w /\ m[i].createdAt > t}

\* the order in which findMany returns the rows of the users
UserOrder == <<"u1", "u2", "u3">>

\* allMembers: the accepted member rows of users other than the author u,
\* then the owner pushed onto the list unless the owner is the author
AllMembers(u, w) ==
    SelectSeq(UserOrder, LAMBDA m : m # u /\ members[w][m] = "accepted")
    \o (IF workspaces[w] # u THEN <<workspaces[w]>> ELSE <<>>)

\* the unread counters of workspace w as a post finds them (not program
\* state: kept with the request to compare the counters after the post)
Counters(w) == [m \in Users |-> notif[w][m].unreadCount]

\* A faulty variant of Incremented: the counter read at the look-up plus one.
IncrementedFromLookup(row, seen) == seen + 1

\* update: {unreadCount: {increment: 1}}: the stored counter plus one
Incremented(row, seen) == row.unreadCount + 1

\* POST /chat/workspace/:workspaceId, up to the list of recipients
ChatPostBegin(r, u, w, content) ==
    /\ req[r].pc = "idle"
    /\ IF content = "blank"
       THEN /\ res' = Response("chat_post", u, 400, 0)
            /\ UNCHANGED <<msgs, now, req>>
       ELSE IF members[w][u] # "accepted"
       THEN /\ res' = Response("chat_post", u, 403, 0)
            /\ UNCHANGED <<msgs, now, req>>
       ELSE /\ now < MaxMsgs
            /\ msgs' = [msgs EXCEPT ![now + 1] =
                  [live |-> TRUE, workspaceId |-> w, userId |-> u,
                   createdAt |-> now + 1]]
            /\ now' = now + 1
            /\ IF AllMembers(u, w) = <<>>
               THEN /\ res' = Response("chat_post", u, 201, 0)
                    /\ UNCHANGED req
               ELSE /\ req' = [req EXCEPT ![r] =
                          [NoReq EXCEPT !.pc = "lookup", !.user = u, !.ws = w,
                                        !.todo = AllMembers(u, w),
                                        !.base = Counters(w)]]
                    /\ res' = NoRes
    /\ out' = {}
    /\ UNCHANGED <<sock, rooms, pend, workspaces, members, tasks, todos, notif, friends, authVars, proc>>

\* chatNotification.upsert, first half: is there a row for the next recipient
ChatUpsertLookup(r) ==
    /\ req[r].pc = "lookup"
    /\ LET m == Head(req[r].todo)
       IN req' = [req EXCEPT ![r] =
                    [@ EXCEPT !.pc = "write", !.cur = m,
                              !.found = notif[req[r].ws][m].exists,
                              !.seen = notif[req[r].ws][m].unreadCount]]
    /\ res' = NoRes
    /\ out' = {}
    /\ UNCHANGED <<sock, rooms, pend, storeVars, authVars, proc>>

\* chatNotification.upsert, second half: the update of the row that was
\* found or the insert of a new one; an update of a row that is gone or an
\* insert of a row that exists by now throws and the request ends 500.
ChatUpsertWrite(r) ==
    /\ req[r].pc = "write"
    /\ LET w == req[r].ws
           m == req[r].cur
           rest == Tail(req[r].todo)
       IN  IF req[r].found # notif[w][m].exists
           THEN /\ res' = Response("chat_post", req[r].user, 500, 0)
                /\ req' = [req EXCEPT ![r] = NoReq]
                /\ UNCHANGED notif
           ELSE /\ notif' = [notif EXCEPT ![w][m] =
                      IF req[r].found
                      THEN [@ EXCEPT !.unreadCount =
                                        Incremented(notif[w][m], req[r].seen)]
                      ELSE [exists |-> TRUE, unreadCount |-> 1,
                            lastReadAt |-> DefaultLastReadAt]]
                /\ IF rest = <<>>
                   THEN /\ res' = Response("chat_post", req[r].user, 201, 0)
                        /\ req' = [req EXCEPT ![r] = NoReq]
                   ELSE /\ res' = NoRes
                        /\ req' = [req EXCEPT ![r] =
                                     [@ EXCEPT !.pc = "lookup", !.todo = rest]]
    /\ out' = {}
    /\ UNCHANGED <<sock, rooms, pend, workspaces, members, tasks, todos, msgs, friends, now, authVars, proc>>

\* DELETE /chat/message/:messageId: the message is deleted and the counter of
\* every accepted member and of the owner recounted from lastReadAt.
ChatDelete(u, i) ==
    /\ IF ~msgs[i].live
       THEN /\ res' = Response("chat_delete", u, 404, 0)
            /\ UNCHANGED <<msgs, notif>>
       ELSE LET w == msgs[i].workspaceId
                left == [msgs EXCEPT ![i].live = FALSE]
                all == {m \in Users : members[w][m] = "accepted"} \cup {workspaces[w]}
            IN  IF ~(workspaces[w] = u \/ msgs[i].userId = u
                     \/ members[w][u] = "accepted")
                THEN /\ res' = Response("chat_delete", u, 403, 0)
                     /\ UNCHANGED <<msgs, notif>>
                ELSE /\ msgs' = left
                     /\ notif' = [notif EXCEPT ![w] =
                           [m \in Users |->
                              IF m \in all /\ notif[w][m].exists
                              THEN [notif[w][m] EXCEPT !.unreadCount =
                                      Cardinality(MessagesAfter(left, w,
                                                    notif[w][m].lastReadAt))]
                              ELSE notif[w][m]]]
                     /\ res' = Response("chat_delete", u, 200, 0)
    /\ out' = {}
    /\ UNCHANGED <<sock, rooms, pend, workspaces, members, tasks, todos, friends, now, req, authVars, proc>>

\* POST /chat/workspace/:workspaceId/read
ChatRead(u, w) ==
    /\ IF ~(members[w][u] = "accepted" \/ workspaces[w] = u)
       THEN /\ res' = Response("chat_read", u, 403, 0)
            /\ UNCHANGED notif
       ELSE /\ notif' = [notif EXCEPT ![w][u] =
                  [exists |-> TRUE, unreadCount |-> 0, lastReadAt |-> now]]
            /\ res' = Response("chat_read", u, 200, 0)
    /\ out' = {}
    /\ UNCHANGED <<sock, rooms, pend, workspaces, members, tasks, todos, msgs, friends, now, req, authVars, proc>>

\* GET /chat/workspace/:workspaceId/unread-count
ChatUnreadCount(u, w) ==
    /\ IF ~(members[w][u] = "accepted" \/ workspaces[w] = u)
       THEN res' = Response("chat_unread", u, 403, 0)
       ELSE res' = Response("chat_unread", u, 200, notif[w][u].unreadCount)
    /\ out' = {}
    /\ UNCHANGED <<sock, rooms, pend, storeVars, req, authVars, proc>>

\* GET /chat/workspace/:workspaceId: the messages of the workspace
ChatList(u, w) ==
    /\ IF members[w][u] # "accepted"
       THEN res' = Response("chat_list", u, 403, 0)
       ELSE res' = Response("chat_list", u, 200,
                            Cardinality(MessagesAfter(msgs, w, 0)))
    /\ out' = {}
    /\ UNCHANGED <<sock, rooms, pend, storeVars, req, authVars, proc>>

\* GET /chat/workspace/:workspaceId/search; every message holds the query
ChatSearch(u, w, query) ==
    /\ IF query = "blank"
       THEN res' = Response("chat_search", u, 400, 0)
       ELSE IF members[w][u] # "accepted"
       THEN res' = Response("chat_search", u, 403, 0)
       ELSE res' = Response("chat_search", u, 200,
                            Cardinality(MessagesAfter(msgs, w, 0)))
    /\ out' = {}
    /\ UNCHANGED <<sock, rooms, pend, storeVars, req, authVars, proc>>

----------------------------------------------------------------------------
(* REST: friendships (routes/friends.js), u is the authenticated user.     *)
(* A friend row is identified by its pair <<userId, friendId>>.  A friend  *)
(* request is served in a request slot: the look-up of an existing row is  *)
(* its first step and the insert its second; the other handlers are atomic. *)

FriendRow(a, b) == {f \in friends : f.userId = a /\ f.friendId = b}

\* POST /friends up to friend.findFirst: the request is refused, or no row
\* joins the two users in either direction and the request goes on
FriendCreateCheck(r, u, target) ==
    /\ req[r].pc = "idle"
    /\ IF target = Null \/ target = u
       THEN /\ res' = Response("friend_create", u, 400, 0)
            /\ UNCHANGED req
       ELSE IF target \notin Users
       THEN /\ res' = Response("friend_create", u, 404, 0)
            /\ UNCHANGED req
       ELSE IF FriendRow(u, target) \cup FriendRow(target, u) # {}
       THEN /\ res' = Response("friend_create", u, 400, 0)
            /\ UNCHANGED req
       ELSE /\ req' = [req EXCEPT ![r] =
                         [NoReq EXCEPT !.pc = "insert", !.user = u, !.cur = target]]
            /\ res' = NoRes
    /\ out' = {}
    /\ UNCHANGED <<sock, rooms, pend, storeVars, authVars, proc>>

\* UNIQUE KEY unique_friendship (userId, friendId): a row a -> b exists
UniqueFriendship(a, b) == FriendRow(a, b) # {}

\* POST /friends from friend.create on: the insert fails on the unique key
\* (500) or adds the pending row (201)
FriendCreateInsert(r) ==
    /\ req[r].pc = "insert"
    /\ IF UniqueFriendship(req[r].user, req[r].cur)
       THEN /\ res' = Response("friend_create", req[r].user, 500, 0)
            /\ UNCHANGED friends
       ELSE /\ friends' = friends \cup
                  {[userId |-> req[r].user, friendId |-> req[r].cur,
                    status |-> "pending"]}
            /\ res' = Response("friend_create", req[r].user, 201, 0)
    /\ req' = [req EXCEPT ![r] = NoReq]
    /\ out' = {}
    /\ UNCHANGED <<sock, rooms, pend, workspaces, members, tasks, todos, msgs, notif, now, authVars, proc>>

\* PATCH /friends/:friend_id
FriendPatch(u, a, b, relation) ==
    /\ IF relation \notin {"accepted", "blocked"}
       THEN /\ res' = Response("friend_patch", u, 400, 0)
            /\ UNCHANGED friends
       ELSE IF FriendRow(a, b) = {} \/ u \notin {a, b}
       THEN /\ res' = Response("friend_patch", u, 404, 0)
            /\ UNCHANGED friends
       ELSE IF b # u /\ relation = "accepted"
       THEN /\ res' = Response("friend_patch", u, 403, 0)
            /\ UNCHANGED friends
       ELSE /\ friends' = (friends \ FriendRow(a, b)) \cup
                  {[userId |-> a, friendId |-> b, status |-> relation]}
            /\ res' = Response("friend_patch", u, 200, 0)
    /\ out' = {}
    /\ UNCHANGED <<sock, rooms, pend, workspaces, members, tasks, todos, msgs, notif, now, req, authVars, proc>>

\* DELETE /friends/:friend_id
FriendDelete(u, a, b) ==
    /\ IF FriendRow(a, b) = {} \/ u \notin {a, b}
       THEN /\ res' = Response("friend_delete", u, 404, 0)
            /\ UNCHANGED friends
       ELSE /\ friends' = friends \ FriendRow(a, b)
            /\ res' = Response("friend_delete", u, 204, 0)
    /\ out' = {}
    /\ UNCHANGED <<sock, rooms, pend, workspaces, members, tasks, todos, msgs, notif, now, req, authVars, proc>>

----------------------------------------------------------------------------
(* REST: authentication (routes/auth.js) and the admin status route         *)
(* (routes/admin.js).  A login is served in a request slot: its checks, the  *)
(* generation of the tokens and refreshToken.deleteMany are its first step,  *)
(* refreshToken.create and the response its second, so that the steps of two *)
(* logins interleave.  The other handlers read or write the token table once *)
(* and are atomic.                                                           *)

\* the refresh token rows of user u
TokensOf(u) == {row \in rtokens : row.userId = u}

\* the id of the next refresh token that generateTokens signs: every call
\* signs a token that differs from the ones signed before
NextTokenId == Cardinality({k \in TokenIds : jwts[k].userId # Null}) + 1

\* a faulty variant of RefreshTokenExpired: no row is ever expired
RefreshTokenNeverExpired(row) == FALSE

\* storedToken.expiresAt < new Date()
RefreshTokenExpired(row) == row.expired

\* POST /auth/login up to refreshToken.deleteMany; creds says what the body
\* holds: nothing, an unknown email, a wrong password or the right password
LoginBegin(r, u, creds) ==
    /\ req[r].pc = "idle"
    /\ IF creds = "missing"
       THEN /\ res' = Response("login", u, 400, 0)
            /\ UNCHANGED <<req, rtokens, jwts>>
       ELSE IF creds # "ok" \/ ~active[u]
       THEN /\ res' = Response("login", u, 401, 0)
            /\ UNCHANGED <<req, rtokens, jwts>>
       ELSE /\ NextTokenId <= MaxLogins
            /\ jwts' = [jwts EXCEPT ![NextTokenId] =
                          [userId |-> u, issued |-> FALSE, valid |-> TRUE,
                           revoked |-> FALSE]]
            /\ rtokens' = rtokens \ TokensOf(u)
            /\ req' = [req EXCEPT ![r] =
                         [NoReq EXCEPT !.pc = "create", !.user = u,
                                       !.token = NextTokenId]]
            /\ res' = NoRes
    /\ out' = {}
    /\ UNCHANGED <<sock, rooms, pend, storeVars, active, proc>>

\* if (refreshToken) responseData.refreshToken = refreshToken: the variable
\* holds what generateTokens returned, whether or not the row was stored
ResponseHasRefreshToken(token, stored) == token # 0

\* POST /auth/login from refreshToken.create on.  The create stores the row,
\* or throws (storeFails: the store is unreachable or rejects the row) and
\* the catch block goes on without a row; then the response is sent (200),
\* and jwts[k].issued records that it carried the refresh token.
LoginCreate(r, storeFails) ==
    /\ req[r].pc = "create"
    /\ rtokens' = IF storeFails THEN rtokens
                  ELSE rtokens \cup {[token |-> req[r].token, userId |-> req[r].user,
                                      expired |-> FALSE]}
    /\ jwts' = [jwts EXCEPT ![req[r].token] =
                  [@ EXCEPT !.issued = ResponseHasRefreshToken(req[r].token,
                                                               ~storeFails)]]
    /\ res' = Response("login", req[r].user, 200, 0)
    /\ req' = [req EXCEPT ![r] = NoReq]
    /\ out' = {}
    /\ UNCHANGED <<sock, rooms, pend, storeVars, active, proc>>

\* POST /auth/refresh with refresh token k in the body (0: no token); the
\* response is recorded with the token it answers
Refresh(k) ==
    /\ LET stored == {row \in rtokens : row.token = k}
       IN  IF k = 0 \/ stored = {}
           THEN /\ res' = Response("refresh", Null, 401, k)
                /\ UNCHANGED rtokens
           ELSE LET row == CHOOSE x \in stored : TRUE
                IN  IF RefreshTokenExpired(row)
                    THEN /\ rtokens' = rtokens \ {row}
                         /\ res' = Response("refresh", row.userId, 401, k)
                    ELSE IF ~active[row.userId]
                    THEN /\ res' = Response("refresh", row.userId, 401, k)
                         /\ UNCHANGED rtokens
                    ELSE IF ~jwts[k].valid
                    THEN /\ rtokens' = rtokens \ {row}
                         /\ res' = Response("refresh", row.userId, 401, k)
                    ELSE /\ res' = Response("refresh", row.userId, 200, k)
                         /\ UNCHANGED rtokens
    /\ out' = {}
    /\ UNCHANGED <<sock, rooms, pend, storeVars, req, active, jwts, proc>>

\* POST /auth/logout by the authenticated user u.  The tokens that u was
\* handed before this response are marked (revoked is not program state).
Logout(u) ==
    /\ rtokens' = rtokens \ TokensOf(u)
    /\ jwts' = [k \in TokenIds |->
                  IF jwts[k].userId = u /\ jwts[k].issued
                  THEN [jwts[k] EXCEPT !.revoked = TRUE] ELSE jwts[k]]
    /\ res' = Response("logout", u, 204, 0)
    /\ out' = {}
    /\ UNCHANGED <<sock, rooms, pend, storeVars, req, active, proc>>

\* PATCH /admin/users/:userId/status by the authenticated user a
AdminSetStatus(a, u, isActive) ==
    /\ IF a \notin Admins
       THEN /\ res' = Response("admin_status", a, 403, 0)
            /\ UNCHANGED <<active, rtokens>>
       ELSE IF a = u /\ ~isActive
       THEN /\ res' = Response("admin_status", a, 400, 0)
            /\ UNCHANGED <<active, rtokens>>
       ELSE /\ active' = [active EXCEPT ![u] = isActive]
            /\ rtokens' = IF isActive THEN rtokens ELSE rtokens \ TokensOf(u)
            /\ res' = Response("admin_status", a, 200, 0)
    /\ out' = {}
    /\ UNCHANGED <<sock, rooms, pend, storeVars, req, jwts, proc>>

\* time passes the expiresAt of a stored row
RowExpires(row) ==
    /\ row \in rtokens /\ ~row.expired
    /\ rtokens' = (rtokens \ {row}) \cup {[row EXCEPT !.expired = TRUE]}
    /\ res' = NoRes
    /\ out' = {}
    /\ UNCHANGED <<sock, rooms, pend, storeVars, req, active, jwts, proc>>

\* time passes the exp of refresh token k: jwt.verify rejects it from now on
JwtExpires(k) ==
    /\ jwts[k].valid
    /\ jwts' = [jwts EXCEPT ![k] = [@ EXCEPT !.valid = FALSE]]
    /\ res' = NoRes
    /\ out' = {}
    /\ UNCHANGED <<sock, rooms, pend, storeVars, req, active, rtokens, proc>>

----------------------------------------------------------------------------
(* The server process (index.js): two HTTP servers, the API server and the *)
(* one that carries the socket connections, and the database client.       *)

\* process.on("SIGTERM" / "SIGINT"): gracefulShutdown up to its await.  Both
\* servers are told to close, which stops them listening and calls back once
\* their connections have ended, and prisma.$disconnect() is started.
Signal ==
    /\ proc.pc \in {"running", "disconnecting"}
    /\ proc' = [proc EXCEPT
                  !.pc = "disconnecting",
                  !.api = IF @ = "listening" THEN "closing" ELSE @,
                  !.socket = IF @ = "listening" THEN "closing" ELSE @]
    /\ res' = NoRes
    /\ out' = {}
    /\ UNCHANGED <<sock, rooms, pend, storeVars, req, authVars>>

\* the callback of apiServer.close: the last API connection has ended
ApiClosed ==
    /\ proc.pc # "exited" /\ proc.api = "closing"
    /\ proc' = [proc EXCEPT !.api = "closed"]
    /\ res' = NoRes
    /\ out' = {}
    /\ UNCHANGED <<sock, rooms, pend, storeVars, req, authVars>>

\* the callback of socketServer.close: no socket connection is left
SocketClosed ==
    /\ proc.pc # "exited" /\ proc.socket = "closing"
    /\ \A s \in Sockets : sock[s].st # "connected"
    /\ proc' = [proc EXCEPT !.socket = "closed"]
    /\ res' = NoRes
    /\ out' = {}
    /\ UNCHANGED <<sock, rooms, pend, storeVars, req, authVars>>

\* gracefulShutdown after its await: prisma.$disconnect() has resolved and
\* process.exit(0) is called, or it has thrown and process.exit(1) is called
DbDisconnected(ok) ==
    /\ proc.pc = "disconnecting"
    /\ proc' = [proc EXCEPT !.pc = "exited",
                            !.db = IF ok THEN "disconnected" ELSE @,
                            !.code = IF ok THEN "0" ELSE "1"]
    /\ res' = NoRes
    /\ out' = {}
    /\ UNCHANGED <<sock, rooms, pend, storeVars, req, authVars>>

----------------------------------------------------------------------------
(* Initial state: the store after workspace w1 was created by u1 *)

Init ==
    /\ sock = [s \in Sockets |->
                 [st |-> "idle", token |-> NoToken, user |-> Null, err |-> Null]]
    /\ rooms = [s \in Sockets |-> {}]
    /\ pend = [s \in Sockets |-> NoPend]
    /\ out = {}
    /\ workspaces = [w \in WsIds |-> IF w = "w1" THEN "u1" ELSE Null]
    /\ members = [w \in WsIds |-> [u \in Users |-> "none"]]
    /\ tasks = [t \in TaskIds |-> NoTask]
    /\ todos = [d \in TodoIds |-> NoTodo]
    /\ msgs = [m \in MsgIds |-> NoMsg]
    /\ notif = [w \in WsIds |-> [u \in Users |->
                  IF w = "w1" /\ u = "u1"
                  THEN [exists |-> TRUE, unreadCount |-> 0, lastReadAt |-> 0]
                  ELSE NoNotif]]
    /\ friends = {}
    /\ now = 0
    /\ req = [r \in Slots |-> NoReq]
    /\ res = NoRes
    /\ rtokens = {}
    /\ active = [u \in Users |-> TRUE]
    /\ jwts = [k \in TokenIds |-> NoJwt]
    /\ proc = [pc |-> "running", api |-> "listening", socket |-> "listening",
               db |-> "connected", code |-> Null]

----------------------------------------------------------------------------
(* Spec: the socket server and the membership it checks.  Socket s1 is opened *)
(* by a client of u1 and s2 by a client of u2; the members of w1 change.      *)

ClientOf(s) == IF s = "s1" THEN "u1" ELSE "u2"

\* The handshake tokens a client of user u sends: none, a good one, one signed
\* with another key, an expired one.
ClientTokens(u) ==
    {NoToken,
     [sub |-> u, key |-> JWT_SECRET, expired |-> FALSE],
     [sub |-> u, key |-> OtherKey, expired |-> FALSE],
     [sub |-> u, key |-> JWT_SECRET, expired |-> TRUE]}

SocketNext ==
    \/ \E s \in Sockets : \E tk \in ClientTokens(ClientOf(s)) : Connect(s, tk)
    \/ \E s \in Sockets, w \in WsIds \cup {Null} : JoinWorkspace(s, w)
    \/ \E s \in Sockets, w \in WsIds \cup {Null} : LeaveWorkspace(s, w)
    \/ \E s \in Sockets : JoinPersonalChannel(s)
    \/ \E s \in Sockets, w \in {"w1", Null}, b \in BOOLEAN : Typing(s, w, b)
    \/ \E s \in Sockets, d \in {"d1", Null} : TodoUpdate(s, d, Null)
    \/ \E s \in Sockets, u \in {"u1", Null} : FriendRequest(s, u, Null)
    \/ \E s \in Sockets : Disconnect(s)

MemberNext ==
    \/ \E hasName \in BOOLEAN : WorkspaceCreate("u2", "w2", hasName)
    \/ \E u \in {"u1", "u2"}, target \in {"u2", Null} : MemberInvite(u, "w1", target)
    \/ \E u \in {"u1", "u2"}, a \in BOOLEAN : MemberRespond(u, "w1", "u2", a)
    \/ \E u \in {"u1", "u2"} : MemberRemove(u, "w1", "u2")

Next == SocketNext \/ MemberNext

Spec == Init /\ [][Next]_vars

----------------------------------------------------------------------------
(* SpecTask: group tasks and their change notifications.  u1 owns w1; u2 is *)
(* invited to w1, may create w2, writes the tasks and emits task_update on  *)
(* socket s1; u1 listens on socket s2 and may remove u2 from w1.            *)

GoodTokenOf(u) == [sub |-> u, key |-> JWT_SECRET, expired |-> FALSE]

\* A client payload that names the task and carries its own taskData.
Forged(t) == [id |-> t, workspaceId |-> "w1", status |-> "completed"]

TaskUpdatePayloads ==
    [wsId : WsIds, taskId : {"t1"}, action : Actions, taskData : {NoTaskData}]
    \cup [wsId : WsIds, taskId : {"t1"}, action : {Null}, taskData : {Forged("t1")}]
    \cup {[wsId |-> Null, taskId |-> "t1", action |-> Null, taskData |-> NoTaskData],
          [wsId |-> "w1", taskId |-> Null, action |-> Null, taskData |-> NoTaskData]}

TaskPatchBodies ==
    {[workspaceId |-> w, status |-> st, fields |-> "ok",
      startDate |-> NoDate, dueDate |-> NoDate] :
        w \in WsIds \cup {Null}, st \in {Null, "completed"}}
    \cup {[workspaceId |-> Null, status |-> "bogus", fields |-> "ok",
           startDate |-> NoDate, dueDate |-> NoDate]}

TaskSocketNext ==
    \/ Connect("s1", GoodTokenOf("u2"))
    \/ Connect("s2", GoodTokenOf("u1"))
    \/ \E s \in Sockets : JoinWorkspace(s, "w1")
    \/ \E data \in TaskUpdatePayloads : TaskUpdateCheck("s1", data)
    \/ TaskUpdateEmit("s1")

TaskMemberNext ==
    \/ WorkspaceCreate("u2", "w2", TRUE)
    \/ MemberInvite("u1", "w1", "u2")
    \/ MemberRespond("u2", "w1", "u2", TRUE)
    \/ MemberRemove("u1", "w1", "u2")

TaskRestNext ==
    \/ \E w \in WsIds, fields \in {"ok", "missing"} :
          TaskCreate("u2", w, "t1",
                     [workspaceId |-> Null, status |-> Null, fields |-> fields,
                      startDate |-> 1, dueDate |-> 2])
    \/ \E w \in WsIds :
          \E body \in TaskPatchBodies : TaskPatch("u2", w, "t1", body)
    \/ \E w \in WsIds : TaskDelete("u2", w, "t1")
    \/ \E w \in WsIds, ids \in {{}, {"t1"}, {"t1", "t2"}} :
          TaskBulkStatus("u2", w, ids, "completed")

NextTask == TaskSocketNext \/ TaskMemberNext \/ TaskRestNext

SpecTask == Init /\ [][NextTask]_vars

----------------------------------------------------------------------------
(* Personal todos of two users *)

TodoUsers == {"u1", "u2"}

TodoPatchBodies ==
    {[userId |-> o, status |-> st, fields |-> "ok"] :
        o \in TodoUsers \cup {Null}, st \in {Null, "completed", "bogus"}}
    \cup {[userId |-> Null, status |-> Null, fields |-> "bad_priority"]}

NextTodo ==
    \/ \E u \in TodoUsers, d \in TodoIds, st \in {Null, "in_progress", "bogus"},
          fields \in TodoFields :
          TodoCreate(u, d, [userId |-> Null, status |-> st, fields |-> fields])
    \/ \E u \in TodoUsers, d \in TodoIds : TodoGet(u, d)
    \/ \E u \in TodoUsers, d \in TodoIds, body \in TodoPatchBodies :
          TodoPatch(u, d, body)
    \/ \E u \in TodoUsers, d \in TodoIds : TodoDelete(u, d)
    \/ \E u \in TodoUsers, ids \in SUBSET TodoIds, st \in {Null, "completed"} :
          TodoBulkStatus(u, ids, st)

SpecTodo == Init /\ [][NextTodo]_vars

----------------------------------------------------------------------------
(* The chat of workspace w1: its owner u1 and the invited user u2 *)

ChatUsers == {"u1", "u2"}

NextChat ==
    \/ MemberInvite("u1", "w1", "u2")
    \/ MemberRespond("u2", "w1", "u2", TRUE)
    \/ MemberRemove("u1", "w1", "u2")
    \/ \E r \in Slots, u \in ChatUsers, content \in {"ok", "blank"} :
          ChatPostBegin(r, u, "w1", content)
    \/ \E r \in Slots : ChatUpsertLookup(r)
    \/ \E r \in Slots : ChatUpsertWrite(r)
    \/ \E u \in ChatUsers, i \in MsgIds : ChatDelete(u, i)
    \/ \E u \in ChatUsers : ChatRead(u, "w1")
    \/ \E u \in ChatUsers : ChatUnreadCount(u, "w1")

SpecChat == Init /\ [][NextChat]_vars

----------------------------------------------------------------------------
(* Every REST write next to a connected socket: the user u2, invited to w1 *)
(* by its owner u1, with socket s1, and one task, one todo, one chat slot  *)
(* and the friendship of u2 and u1.  The routes of one resource read and   *)
(* write only the rows of that resource and the membership, so a behaviour *)
(* writes the rows of one resource only.                                   *)

RestSocketNext ==
    \/ Connect("s1", GoodTokenOf("u2"))
    \/ JoinWorkspace("s1", "w1")
    \/ TodoUpdate("s1", "d1", Null)

NoTaskWritten == \A t \in TaskIds : tasks[t] = NoTask
NoTodoWritten == \A d \in TodoIds : todos[d] = NoTodo
NoChatWritten == now = 0 /\ \A r \in Slots : req[r].pc \notin {"lookup", "write"}
NoFriendWritten == friends = {} /\ \A r \in Slots : req[r].pc # "insert"

RestMemberNext ==
    \/ WorkspaceCreate("u2", "w2", TRUE)
    \/ MemberInvite("u1", "w1", "u2")
    \/ MemberRespond("u2", "w1", "u2", TRUE)
    \/ MemberRemove("u2", "w1", "u2")

\* no task, todo, chat message or friend row but those of resource k written
Only(k) ==
    /\ k = "task" \/ NoTaskWritten
    /\ k = "todo" \/ NoTodoWritten
    /\ k = "chat" \/ NoChatWritten
    /\ k = "friend" \/ NoFriendWritten

RestTaskNext ==
    \/ Only("task") /\ TaskCreate("u2", "w1", "t1",
                          [workspaceId |-> Null, status |-> Null, fields |-> "ok",
                           startDate |-> 1, dueDate |-> 2])
    \/ Only("task") /\ TaskPatch("u2", "w1", "t1",
                          [workspaceId |-> Null, status |-> "completed", fields |-> "ok",
                           startDate |-> NoDate, dueDate |-> NoDate])
    \/ Only("task") /\ TaskDelete("u2", "w1", "t1")
    \/ Only("task") /\ TaskBulkStatus("u2", "w1", {"t1"}, "in_progress")

RestTodoNext ==
    \/ Only("todo") /\ TodoCreate("u2", "d1",
                          [userId |-> Null, status |-> Null, fields |-> "ok"])
    \/ Only("todo") /\ TodoPatch("u2", "d1",
                          [userId |-> Null, status |-> "completed", fields |-> "ok"])
    \/ Only("todo") /\ TodoDelete("u2", "d1")
    \/ Only("todo") /\ TodoBulkStatus("u2", {"d1"}, "in_progress")

RestChatNext ==
    \/ Only("chat") /\ ChatPostBegin("r1", "u2", "w1", "ok")
    \/ Only("chat") /\ ChatUpsertLookup("r1")
    \/ Only("chat") /\ ChatUpsertWrite("r1")
    \/ Only("chat") /\ \E i \in MsgIds : ChatDelete("u2", i)
    \/ Only("chat") /\ \E u \in ChatUsers : ChatRead(u, "w1")

RestFriendNext ==
    \/ Only("friend") /\ FriendCreateCheck("r1", "u2", "u1")
    \/ Only("friend") /\ FriendCreateInsert("r1")
    \/ Only("friend") /\ \E relation \in {"accepted", "blocked"} :
                            FriendPatch("u1", "u2", "u1", relation)
    \/ Only("friend") /\ FriendDelete("u2", "u2", "u1")

NextRest ==
    \/ RestSocketNext
    \/ RestMemberNext
    \/ RestTaskNext
    \/ RestTodoNext
    \/ RestChatNext
    \/ RestFriendNext

SpecRest == Init /\ [][NextRest]_vars

----------------------------------------------------------------------------
(* Claims about the socket server *)

\* A token that verifies against the JWT secret.
GoodToken(tk) == tk # NoToken /\ tk.key = JWT_SECRET /\ ~tk.expired

\* u is the owner of w or has a member row for w with accepted = true.
Participant(u, w) ==
    /\ workspaces[w] # Null
    /\ \/ workspaces[w] = u
       \/ members[w][u] = "accepted"

\* C1: a socket is accepted (socket.user set, handlers live) only if its
\* handshake token verifies against the JWT secret; a socket with no token or
\* a token that fails verification is rejected with an authentication error,
\* has no user, is in no room, has no handler in flight, and no emitted event
\* comes from it.
C1_OnlyVerifiedTokensAccepted ==
    /\ \A s \in Sockets :
          sock[s].st \in {"connected", "closed"} =>
             GoodToken(sock[s].token) /\ sock[s].user = sock[s].token.sub
    /\ \A s \in Sockets :
          sock[s].st = "rejected" =>
             /\ ~GoodToken(sock[s].token)
             /\ sock[s].err = IF sock[s].token = NoToken THEN "no_token"
                              ELSE "invalid_token"
             /\ sock[s].user = Null
             /\ rooms[s] = {}
             /\ pend[s] = NoPend
    /\ \A e \in out : sock[e.from].st \in {"connected", "closed"}

\* C1 witness: one socket was rejected for a token signed with another key
\* while the other, accepted, has joined a room and emitted.
C1_Witness ==
    \E s, s2 \in Sockets :
       /\ sock[s].st = "rejected" /\ sock[s].err = "invalid_token"
       /\ sock[s].token.key = OtherKey
       /\ sock[s2].st = "connected" /\ rooms[s2] # {}
       /\ \E e \in out : e.from = s2

\* C2: join_workspace(W) puts the socket into room workspace_W, with
\* joined_workspace to it and user_joined to the others, only if the socket's
\* user is then the owner or an accepted member of W; for anyone else the
\* socket gets an error event and no room set changes.
C2_JoinOnlyForParticipants ==
    [][\A s \in Sockets, w \in WsIds :
          /\ (WsRoom(w) \in rooms'[s] /\ WsRoom(w) \notin rooms[s]) =>
                /\ Participant(sock[s].user, w)
                /\ \E e \in out' : /\ e.ev = "joined_workspace" /\ e.rcpt = {s}
                                   /\ e.data.wsId = w
                /\ \E e \in out' : /\ e.ev = "user_joined" /\ e.room = WsRoom(w)
                                   /\ e.rcpt = InRoom(WsRoom(w)) \ {s}
          /\ (JoinWorkspace(s, w) /\ ~Participant(sock[s].user, w)) =>
                /\ rooms' = rooms
                /\ \A e \in out' : e.ev = "error" /\ e.rcpt = {s}
                /\ out' # {}
      ]_vars

\* C2 witness: an accepted member (not the owner) is in the room of w1 right
\* after its join, and so is the owner's socket, which was told.
C2_Witness ==
    \E s \in Sockets :
       /\ WsRoom("w1") \in rooms[s]
       /\ sock[s].user # workspaces["w1"]
       /\ members["w1"][sock[s].user] = "accepted"
       /\ \E e \in out : e.ev = "joined_workspace" /\ e.from = s
       /\ \E e \in out : e.ev = "user_joined" /\ e.from = s /\ e.rcpt # {}

\* C2 witness of the refusal: a pending invitee asked to join and got an error.
C2_WitnessRefused ==
    \E s \in Sockets :
       /\ sock[s].st = "connected"
       /\ members["w1"][sock[s].user] = "pending"
       /\ rooms[s] = {}
       /\ \E e \in out : e.ev = "error" /\ e.from = s /\ e.data.message = "no_access"

----------------------------------------------------------------------------
(* Claims about group tasks and their notifications *)

\* the task_update handler of socket s ends in this step
EmitStep(s) == pend[s] # NoPend /\ pend'[s] = NoPend

\* C3: task_updated goes to room workspace_W only from a task_update handler
\* that found its emitter to be the owner or an accepted member of W when it
\* re-validated the membership, and only while a group task with the given
\* taskId exists in W; when wsId or taskId is missing, the emitter is no
\* member or the task is not in W, the only event is an error to the emitter.
C3_TaskUpdatedOnlyForMembersAndTasks ==
    [][/\ \A e \in out' :
             e.ev = "task_updated" =>
                \E s \in Sockets :
                   /\ EmitStep(s) /\ e.from = s
                   /\ e.room = WsRoom(pend[s].wsId)
                   /\ e.data.taskId = pend[s].taskId
                   /\ tasks[pend[s].taskId].live
                   /\ tasks[pend[s].taskId].workspaceId = pend[s].wsId
       /\ \A s \in Sockets :
             (pend[s] = NoPend /\ pend'[s] # NoPend) =>
                /\ pend'[s].wsId # Null /\ pend'[s].taskId # Null
                /\ Participant(sock[s].user, pend'[s].wsId)
       /\ \A s \in Sockets, data \in TaskUpdatePayloads :
             (/\ TaskUpdateCheck(s, data)
              /\ \/ data.wsId = Null
                 \/ data.taskId = Null
                 \/ ~Participant(sock[s].user, data.wsId)) =>
                /\ out' # {} /\ \A e \in out' : e.ev = "error" /\ e.rcpt = {s}
                /\ pend'[s] = NoPend
       /\ \A s \in Sockets :
             (/\ EmitStep(s)
              /\ ~(tasks[pend[s].taskId].live
                   /\ tasks[pend[s].taskId].workspaceId = pend[s].wsId)) =>
                out' # {} /\ \A e \in out' : e.ev = "error" /\ e.rcpt = {s}
      ]_vars

\* C3 witness: a task_updated broadcast about a task of w1, sent by an
\* accepted member, reached both sockets in the room of w1.
C3_Witness ==
    \E e \in out :
       /\ e.ev = "task_updated" /\ e.room = WsRoom("w1")
       /\ e.rcpt = Sockets
       /\ members["w1"][e.data.userId] = "accepted"
       /\ tasks[e.data.taskId].live /\ tasks[e.data.taskId].workspaceId = "w1"

\* C4 as claimed: the taskData of every task_updated broadcast is the record
\* the server looked up in the store for that taskId.
C4_TaskDataIsCanonical ==
    \A e \in out :
       e.ev = "task_updated" => e.data.taskData = TaskRecord(e.data.taskId)

\* C4 amended: the taskData of a task_updated broadcast is the taskData of
\* the client's payload when the payload carries one, and the record the
\* server looked up in the store only when it carries none.
C4_TaskDataIsClientsOrCanonical ==
    [][\A s \in Sockets :
          EmitStep(s) =>
             \A e \in out' :
                e.ev = "task_updated" =>
                   e.data.taskData =
                      IF pend[s].taskData = NoTaskData
                      THEN [id |-> pend[s].taskId,
                            workspaceId |-> tasks[pend[s].taskId].workspaceId,
                            status |-> tasks[pend[s].taskId].status]
                      ELSE pend[s].taskData
      ]_vars

\* C4 witness: a broadcast that carries the stored record of a pending task
\* (the payloads of the clients here only ever say "completed").
C4_Witness ==
    \E e \in out :
       /\ e.ev = "task_updated"
       /\ e.data.taskData.status = "pending"
       /\ e.data.taskData = TaskRecord(e.data.taskId)

\* C6 as claimed: for each of created, updated and deleted, when a member did
\* the REST mutation of a task of W and afterwards emitted task_update
\* naming that task and action, every socket in room workspace_W gets a
\* task_updated event with that action.
C6_MutationIsBroadcast ==
    [][\A s \in Sockets :
          (/\ EmitStep(s)
           /\ pend[s].action \in {"created", "updated", "deleted"}
           /\ pend[s].after
           /\ tasks[pend[s].taskId].mut = pend[s].action
           /\ tasks[pend[s].taskId].by = sock[s].user
           /\ tasks[pend[s].taskId].workspaceId = pend[s].wsId
           /\ Participant(sock[s].user, pend[s].wsId)) =>
             \E e \in out' :
                /\ e.ev = "task_updated"
                /\ e.room = WsRoom(pend[s].wsId)
                /\ e.rcpt = InRoom(WsRoom(pend[s].wsId))
                /\ e.data.action = pend[s].action
      ]_vars

\* C10 as claimed: a task stays in the workspace it was created in, and a
\* request under /workspaces/W/tasks changes only rows whose workspaceId is W.
C10_TaskStaysInWorkspace ==
    [][/\ \A t \in TaskIds :
             tasks[t] # NoTask => tasks'[t].workspaceId = tasks[t].workspaceId
       /\ \A u \in Users, w \in WsIds, t \in TaskIds, body \in TaskPatchBodies :
             TaskPatch(u, w, t, body) =>
                \A t2 \in TaskIds :
                   tasks'[t2] # tasks[t2] =>
                      tasks[t2].workspaceId = w /\ tasks'[t2].workspaceId = w
      ]_vars

----------------------------------------------------------------------------
(* Claims about the two paths *)

\* C5: a step of a REST request (one that writes the store, answers a
\* request or moves a chat request on) emits no socket event and leaves every
\* socket and room as it is; the socket events of a step all come from the
\* handler of one accepted socket's event, which writes nothing to the store.
C5_RestWritesEmitNothing ==
    [][/\ (storeVars' # storeVars \/ authVars' # authVars \/ res' # NoRes
           \/ req' # req) =>
             out' = {} /\ UNCHANGED <<sock, rooms, pend>>
       /\ out' # {} =>
             /\ \E s \in Sockets : Accepted(s) /\ \A e \in out' : e.from = s
             /\ UNCHANGED <<storeVars, authVars, req>> /\ res' = NoRes
      ]_vars

\* C5 witness: a task was deleted over REST while a socket sat in the room of
\* its workspace, and no event was sent.
C5_Witness ==
    /\ tasks["t1"].mut = "deleted" /\ res.status = 204
    /\ \E s \in Sockets : WsRoom(tasks["t1"].workspaceId) \in rooms[s]
    /\ out = {}

----------------------------------------------------------------------------
(* Claims about the unread counters of the chat *)

\* no chat post is in progress
Quiescent == \A r \in Slots : req[r].pc = "idle"

\* C7 as claimed: whenever no chat request is in progress, the unreadCount of
\* every chat notification row equals the number of messages of its
\* workspace created after its lastReadAt.
C7_UnreadCountIsMessagesSinceRead ==
    Quiescent =>
       \A w \in WsIds, u \in Users :
          notif[w][u].exists =>
             notif[w][u].unreadCount =
                Cardinality({i \in MsgIds : /\ msgs[i].live
                                            /\ msgs[i].workspaceId = w
                                            /\ msgs[i].createdAt > notif[w][u].lastReadAt})

\* the write half of an upsert that found its row and still finds it
UpdateStep(r) ==
    /\ req[r].pc = "write" /\ req'[r].pc # "write"
    /\ req[r].found /\ notif[req[r].ws][req[r].cur].exists

----------------------------------------------------------------------------
(* Claims about personal todos *)

\* C9 as claimed: a personal todo keeps the user it was created for as its
\* owner as long as it exists, and a GET, PATCH or DELETE of it by any other
\* user answers 404 and a bulk status update by another user changes no row
\* of it.
C9_TodoKeepsOwner ==
    [][/\ \A d \in TodoIds :
             (todos[d].live /\ todos'[d].live) => todos'[d].userId = todos[d].userId
       /\ \A u \in TodoUsers, d \in TodoIds :
             (todos[d].live /\ todos[d].userId # u) =>
                /\ TodoGet(u, d) => res'.status = 404
                /\ TodoDelete(u, d) => res'.status = 404 /\ todos' = todos
                /\ \A body \in TodoPatchBodies :
                      TodoPatch(u, d, body) => res'.status = 404 /\ todos' = todos
                /\ \A ids \in SUBSET TodoIds, st \in {Null, "completed"} :
                      TodoBulkStatus(u, ids, st) => todos'[d] = todos[d]
      ]_vars

----------------------------------------------------------------------------
(* SpecAuth: logins, refreshes and logouts of u1 while the admin u3 changes *)
(* the status of u1 and time passes.                                       *)

AuthUsers == {"u1"}

NextAuth ==
    \/ \E r \in Slots, u \in AuthUsers,
          creds \in {"missing", "unknown", "wrong_password", "ok"} :
          LoginBegin(r, u, creds)
    \/ \E r \in Slots, storeFails \in BOOLEAN : LoginCreate(r, storeFails)
    \/ \E k \in {0} \cup TokenIds : Refresh(k)
    \/ \E u \in AuthUsers : Logout(u)
    \/ \E a \in {"u2", "u3"}, u \in {"u1", "u3"}, isActive \in BOOLEAN :
          AdminSetStatus(a, u, isActive)
    \/ \E row \in rtokens : RowExpires(row)
    \/ \E k \in TokenIds : JwtExpires(k)

SpecAuth == Init /\ [][NextAuth]_vars

\* C11: when no login is in flight, the store holds at most one refresh
\* token of each user.
C11_AtMostOneRefreshToken ==
    (\A r \in Slots : req[r].pc = "idle") =>
        \A u \in Users : Cardinality(TokensOf(u)) <= 1

\* C12: a refresh request is answered 200 (a new access token) only if the
\* presented token is stored at that time in a row that is not expired, passes
\* jwt.verify and belongs to an active user; a token that was handed to a user
\* before a logout of that user completed is answered 401; and the request
\* adds no row to the refresh token table.
C12_RefreshOnlyForLiveTokens ==
    [][\A k \in TokenIds :
          Refresh(k) =>
             /\ rtokens' \subseteq rtokens
             /\ res'.status \in {200, 401}
             /\ res'.status = 200 =>
                   \E row \in rtokens :
                      /\ row.token = k /\ ~row.expired
                      /\ jwts[k].valid /\ active[row.userId]
             /\ jwts[k].revoked => res'.status = 401
      ]_vars

\* a refresh of token 2 was answered 200 after token 1 was logged out
C12_Witness ==
    /\ res = Response("refresh", "u1", 200, 2)
    /\ jwts[1].revoked /\ jwts[1].userId = jwts[2].userId

\* a refresh of a logged-out token was answered 401
C12_WitnessRejected ==
    \E k \in TokenIds : jwts[k].revoked /\ res = Response("refresh", Null, 401, k)

----------------------------------------------------------------------------
(* SpecSocial: the friendships of u1 with u2 and u3, the todo d1 of u1 or  *)
(* u2, and the sockets s1 of u1 and s2 of u2 with their personal channels. *)

\* the friend requests sent: <<from, to>>
FriendPairs == {<<"u1", "u2">>, <<"u2", "u1">>, <<"u3", "u1">>}

SocialSocketNext ==
    \/ \E s \in Sockets : Connect(s, GoodTokenOf(ClientOf(s)))
    \/ JoinPersonalChannel("s2")
    \/ \E d \in {"d1", Null} : TodoUpdate("s1", d, Null)

SocialTodoNext ==
    \/ \E u \in TodoUsers :
          TodoCreate(u, "d1", [userId |-> Null, status |-> Null, fields |-> "ok"])
    \/ \E u \in TodoUsers : TodoDelete(u, "d1")

SocialFriendNext ==
    \/ \E r \in Slots, pair \in FriendPairs : FriendCreateCheck(r, pair[1], pair[2])
    \/ \E r \in Slots, target \in {Null, "u1", "u9"} :
          FriendCreateCheck(r, "u1", target)
    \/ \E r \in Slots : FriendCreateInsert(r)
    \/ \E u \in {"u1", "u2"}, pair \in FriendPairs,
          relation \in {"accepted", "blocked", "pending"} :
          FriendPatch(u, pair[1], pair[2], relation)
    \/ \E pair \in FriendPairs : FriendDelete(pair[1], pair[1], pair[2])
    \/ FriendDelete("u3", "u1", "u2")

NextSocial == SocialSocketNext \/ SocialTodoNext \/ SocialFriendNext

SpecSocial == Init /\ [][NextSocial]_vars

\* C13: a friend_todo_updated event is emitted only for a todoId that names
\* an existing personal todo owned by the emitting user.
C13_TodoEventOnlyForOwnTodo ==
    [][\A e \in out' :
          e.ev = "friend_todo_updated" =>
             /\ e.data.taskId \in TodoIds
             /\ todos[e.data.taskId].live
             /\ todos[e.data.taskId].userId = sock[e.from].user
      ]_vars

----------------------------------------------------------------------------
(* SpecSeeded: the chat routes on w1, owned by u1 who has no member row,   *)
(* and on the seeded workspace w2, whose owner u3 has an accepted member   *)
(* row.  The requests are served one at a time in slot r1.                 *)

SeededUsers == {"u1", "u3"}

NextSeeded ==
    \/ Quiescent /\ SeedWorkspace("w2")
    \/ Quiescent /\ MemberInvite("u1", "w1", "u2")
    \/ Quiescent /\ MemberRespond("u2", "w1", "u2", TRUE)
    \/ \E u \in Users, w \in WsIds, content \in {"ok", "blank"} :
          workspaces[w] # Null /\ ChatPostBegin("r1", u, w, content)
    \/ ChatUpsertLookup("r1")
    \/ ChatUpsertWrite("r1")
    \/ \E u \in Users, i \in MsgIds : Quiescent /\ ChatDelete(u, i)
    \/ \E u \in SeededUsers, w \in WsIds :
          Quiescent /\ workspaces[w] # Null /\ ChatList(u, w)
    \/ \E u \in SeededUsers, w \in WsIds, query \in {"ok", "blank"} :
          Quiescent /\ workspaces[w] # Null /\ ChatSearch(u, w, query)
    \/ \E u \in SeededUsers, w \in WsIds :
          Quiescent /\ workspaces[w] # Null /\ ChatRead(u, w)
    \/ \E u \in SeededUsers, w \in WsIds :
          Quiescent /\ workspaces[w] # Null /\ ChatUnreadCount(u, w)

SpecSeeded == Init /\ [][NextSeeded]_vars

\* the participants of workspace w: its accepted members and its owner
Participants(w) == {m \in Users : members[w][m] = "accepted" \/ workspaces[w] = m}

\* C14: when a post of user u to workspace w has been served (201), the
\* unread counter of every other participant of w is one more than it was
\* when the post began (a missing row is created with 1), and the counter of
\* u is what it was.
C14_PostAddsOneToEveryOtherParticipant ==
    [][(req["r1"].pc = "write" /\ req'["r1"].pc = "idle" /\ res'.status = 201) =>
          LET w == req["r1"].ws
              u == req["r1"].user
          IN  /\ \A m \in Participants(w) \ {u} :
                    /\ notif'[w][m].exists
                    /\ notif'[w][m].unreadCount = req["r1"].base[m] + 1
              /\ notif'[w][u].unreadCount = req["r1"].base[u]
      ]_vars

\* C15: a delete request for a message by a user who is not its author is
\* answered 403 and leaves the message and every unread counter as they are.
C15_OnlyAuthorDeletes ==
    [][\A u \in Users, i \in MsgIds :
          (msgs[i].live /\ msgs[i].userId # u /\ ChatDelete(u, i)) =>
             res'.status = 403 /\ msgs' = msgs /\ notif' = notif
      ]_vars

\* C16: the owner of a workspace who has no accepted member row for it is
\* not answered 403 when listing, searching or posting its chat messages.
C16_OwnerNotRefused ==
    [][\A w \in WsIds :
          LET o == workspaces[w]
          IN  (o # Null /\ members[w][o] # "accepted"
               /\ (\/ ChatList(o, w)
                   \/ ChatSearch(o, w, "ok")
                   \/ ChatPostBegin("r1", o, w, "ok"))) =>
                 res'.status # 403
      ]_vars

\* C17: on todo_update from user u with a todoId, friend_todo_updated is
\* emitted to room user_F exactly for the users F that have a friend row with
\* u, in either direction, whose status is accepted at that time; nothing
\* else is emitted, so users with a pending or blocked row or with no row are
\* sent nothing.
C17_FanOutToAcceptedFriends ==
    [][\A s \in Sockets, d \in TodoIds :
          TodoUpdate(s, d, Null) =>
             LET u == sock[s].user
             IN  /\ \A e \in out' : e.ev = "friend_todo_updated" /\ e.from = s
                 /\ \A F \in Users :
                       (\E e \in out' : e.room = UserRoom(F)) <=>
                       (\E f \in friends :
                           /\ f.status = "accepted"
                           /\ \/ f.userId = u /\ f.friendId = F
                              \/ f.userId = F /\ f.friendId = u)
      ]_vars

\* u1's todo_update reached u2, an accepted friend whose socket is in room
\* user_u2, and not u3, whose request to u1 is pending or blocked
C17_Witness ==
    /\ \E e \in out : /\ e.ev = "friend_todo_updated" /\ e.room = UserRoom("u2")
                      /\ e.rcpt = {"s2"}
    /\ \A e \in out : e.room # UserRoom("u3")
    /\ \E f \in FriendRow("u3", "u1") : f.status # "accepted"

\* C18: when a socket disconnects, every workspace room it was in gets a
\* user_offline event that names the socket's user.
C18_OfflineToJoinedRooms ==
    [][\A s \in Sockets :
          Disconnect(s) =>
             \A w \in WsIds :
                WsRoom(w) \in rooms[s] =>
                   \E e \in out' : /\ e.ev = "user_offline"
                                    /\ e.room = WsRoom(w)
                                    /\ e.data.userId = sock[s].user
      ]_vars

\* C19: there is at most one friend row between any two users, both
\* directions counted, and no row from a user to themself.
C19_OneRowPerPair ==
    \A a \in Users, b \in Users :
       /\ Cardinality(FriendRow(a, b) \cup FriendRow(b, a)) <= 1
       /\ FriendRow(a, a) = {}

\* C20: a status-change request by a user other than the row's friendId is
\* answered 403 and leaves the row as it is: a row's status changes only
\* through a request of its friendId user.
C20_OnlyRecipientChangesStatus ==
    [][\A u \in Users, pair \in FriendPairs, relation \in {"accepted", "blocked"} :
          (FriendRow(pair[1], pair[2]) # {} /\ u = pair[1]
           /\ FriendPatch(u, pair[1], pair[2], relation)) =>
             res'.status = 403 /\ friends' = friends
      ]_vars

\* C26: a friendship row whose status is blocked never becomes accepted: in
\* every step a blocked row stays blocked or is deleted.
C26_BlockedNeverAccepted ==
    [][\A f \in friends :
          f.status = "blocked" =>
             \A g \in friends' :
                (g.userId = f.userId /\ g.friendId = f.friendId) =>
                   g.status = "blocked"
      ]_vars

----------------------------------------------------------------------------
(* SpecDates: the owner u1 of w1 creates, patches and deletes the tasks of *)
(* w1 with every combination of start and due date in the body.            *)

BodyDates == {NoDate, BadDate} \cup Dates

DateBodies ==
    {[workspaceId |-> Null, status |-> Null, fields |-> "ok",
      startDate |-> sd, dueDate |-> dd] : sd \in BodyDates, dd \in BodyDates}

NextDates ==
    \/ \E t \in TaskIds, body \in DateBodies : TaskCreate("u1", "w1", t, body)
    \/ \E t \in TaskIds, body \in DateBodies : TaskPatch("u1", "w1", t, body)
    \/ \E t \in TaskIds : TaskDelete("u1", "w1", t)

SpecDates == Init /\ [][NextDates]_vars

\* C21: every stored group task has a dueDate strictly later than its
\* startDate.
C21_DueAfterStart ==
    \A t \in TaskIds : tasks[t].live => tasks[t].dueDate > tasks[t].startDate

\* C22: while a user is deactivated (the admin's request has been served and
\* the user has not been reactivated) the store holds no refresh token of
\* that user, and a login or a refresh of that user that is answered in that
\* time is answered 401.
C22_DeactivatedUserHasNoTokens ==
    [][/\ \A u \in Users :
             ~active'[u] => {row \in rtokens' : row.userId = u} = {}
       /\ \A r \in Slots :
             ((\E storeFails \in BOOLEAN : LoginCreate(r, storeFails))
              /\ ~active[req[r].user]) => res'.status = 401
       /\ \A k \in TokenIds :
             (Refresh(k) /\ jwts[k].userId # Null /\ ~active[jwts[k].userId]) =>
                res'.status = 401
      ]_vars

\* C23: a login response carries a refresh token only if that token is in
\* the store when the response is sent.
C23_ReturnedTokenIsStored ==
    [][\A r \in Slots, storeFails \in BOOLEAN :
          (LoginCreate(r, storeFails) /\ jwts'[req[r].token].issued) =>
             \E row \in rtokens' : row.token = req[r].token
      ]_vars

----------------------------------------------------------------------------
(* SpecProcess: the sockets s1 of u1 and s2 of u2 connect, join and close  *)
(* while the process runs; a signal starts the shutdown.  A server that is *)
(* closing takes no new connection, and an exited process does nothing.   *)

Serving == proc.pc # "exited"

NextProcess ==
    \/ \E s \in Sockets :
          proc.socket = "listening" /\ Connect(s, GoodTokenOf(ClientOf(s)))
    \/ \E s \in Sockets : Serving /\ JoinPersonalChannel(s)
    \/ \E s \in Sockets : Serving /\ JoinWorkspace(s, "w1")
    \/ \E s \in Sockets : Serving /\ Disconnect(s)
    \/ Signal
    \/ ApiClosed
    \/ SocketClosed
    \/ \E ok \in BOOLEAN : DbDisconnected(ok)

SpecProcess == Init /\ [][NextProcess]_vars

\* C24: when process.exit has been called in a shutdown, the API server and
\* the socket server have finished closing and the database connection has
\* been disconnected.
C24_ExitAfterRelease ==
    proc.pc = "exited" =>
       proc.api = "closed" /\ proc.socket = "closed" /\ proc.db = "disconnected"

----------------------------------------------------------------------------
(* SpecPersonal: each of the sockets s1 and s2 is opened by a client of u1 *)
(* or of u2, with a good or a bad token; the sockets join their channels   *)
(* and rooms and send friend_request and todo_update; u2 and u1 become     *)
(* friends.                                                                *)

NextPersonal ==
    \/ \E s \in Sockets, u \in {"u1", "u2"} :
          \E tk \in ClientTokens(u) : Connect(s, tk)
    \/ \E s \in Sockets : JoinPersonalChannel(s)
    \/ \E s \in Sockets : JoinWorkspace(s, "w1")
    \/ \E s \in Sockets : LeaveWorkspace(s, "w1")
    \/ \E s \in Sockets, target \in {"u1", "u2", Null} : FriendRequest(s, target, Null)
    \/ \E s \in Sockets : TodoUpdate(s, "d1", Null)
    \/ \E s \in Sockets : Disconnect(s)
    \/ FriendCreateCheck("r1", "u2", "u1")
    \/ FriendCreateInsert("r1")
    \/ FriendPatch("u1", "u2", "u1", "accepted")

SpecPersonal == Init /\ [][NextPersonal]_vars

\* C25: every socket in room user_U is a connection authenticated as U, and
\* a friend_request_received or friend_todo_updated event addressed to room
\* user_U is received only by sockets authenticated as U.
C25_PersonalRoomIsOwn ==
    /\ \A s \in Sockets, U \in Users :
          UserRoom(U) \in rooms[s] =>
             /\ sock[s].st = "connected" /\ sock[s].user = U
             /\ GoodToken(sock[s].token) /\ sock[s].token.sub = U
    /\ \A e \in out, U \in Users :
          (e.ev \in {"friend_request_received", "friend_todo_updated"}
           /\ e.room = UserRoom(U)) =>
             \A s \in e.rcpt : sock[s].st = "connected" /\ sock[s].user = U

\* u1's friend_request for u2 was received by s2 alone, the socket of u2 in
\* room user_u2, while s1 is in room user_u1
C25_Witness ==
    /\ \E e \in out : /\ e.ev = "friend_request_received"
                      /\ e.room = UserRoom("u2") /\ e.rcpt = {"s2"}
                      /\ e.from = "s1"
    /\ sock["s1"].user = "u1" /\ sock["s2"].user = "u2"
    /\ UserRoom("u1") \in rooms["s1"]

====
